---------------------------- MODULE Spec2Model ----------------------------
(***************************************************************************)
(* A model of the geocoin game: the grid index (board.ts, class Board),    *)
(* the cache state with its memento, the localStorage-backed cache store,  *)
(* the visible-set updater and the player's coin collection (the game      *)
(* script with the EventManager class).                                    *)
(*                                                                         *)
(* Representation.                                                         *)
(*  - A JavaScript string is a sequence of one-character strings, so that  *)
(*    number formatting, parseInt and key building are computed, not       *)
(*    assumed.                                                             *)
(*  - A coordinate is an integer number of 1e-5 degrees; TILE_DEGREES      *)
(*    (1e-4 degrees) is therefore 10 units.  Division is exact integer     *)
(*    arithmetic; IEEE rounding of the quotient is not modelled.           *)
(*  - A Cell object is a record [i, j, obj]; obj stands for the object's   *)
(*    identity (see getCanonicalCell).                                     *)
(*  - luck.ts is not among the sources; luck is modelled from its          *)
(*    contract, a pure function from string keys to [0,1), here in         *)
(*    thousandths (0..999).                                                *)
(***************************************************************************)
EXTENDS Integers, Sequences, FiniteSets, TLC

VARIABLES
    position,      \* player.position: [lat, lng]
    coins,         \* player.coins: sequence of serial strings
    loadedCaches,  \* loadedCaches: sequence of [i, j, coins]
    localStorage,  \* the key-value store: function from key strings to value strings
    knownCells,    \* board.knownCells: function from key strings to Cell objects
    issued,        \* history: the tokens handed out since the caches were last generated
    event,         \* history: the handler that ran last and how it ended
    call,          \* the last direct call of a function, or the last fix delivered
    result,        \* the value that call returned
    realPositionMode,  \* realPositionMode: the sensor button is on
    pending,       \* the getCurrentPosition requests not yet answered
    popup          \* the popup that is open, with the cache its buttons act on

vars == <<position, coins, loadedCaches, localStorage, knownCells, issued, event,
          call, result, realPositionMode, pending, popup>>

\* the variables of sensor mode
sensorVars == <<realPositionMode, pending>>

\* the variables of the game, which the direct calls leave alone
gameVars == <<position, coins, loadedCaches, localStorage, issued, event,
              realPositionMode, pending, popup>>

-----------------------------------------------------------------------------
(* Bounds of the model. *)

\* Board.tileVisibilityRadius.  The game constructs its board with
\* NEIGHBORHOOD_SIZE; the model explores a smaller radius.
tileVisibilityRadius == 1

\* The move buttons are taken while the player's cell stays north and east of
\* the start cell and within this many tiles of it (counted along the grid).
MaxWalk == 1

\* A poke is taken only while the collection holds fewer coins than this.
MaxCoins == 2

-----------------------------------------------------------------------------
(* Program constants. *)

TILE_DEGREES == 10
OAKES_LAT == 3698949
OAKES_LNG == -12206277
CACHE_SPAWN_PROBABILITY == 100

startPos == [lat |-> OAKES_LAT, lng |-> OAKES_LNG]

-----------------------------------------------------------------------------
(* Strings. *)

Digits == <<"0", "1", "2", "3", "4", "5", "6", "7", "8", "9">>

RECURSIVE NatToString(_)
NatToString(n) ==
    IF n < 10 THEN <<Digits[n + 1]>>
    ELSE NatToString(n \div 10) \o <<Digits[(n % 10) + 1]>>

\* A JavaScript number is an integer or NaN; NaN is a value no arithmetic of
\* the model reaches.
NaN == -(10 * 10 * 10 * 10 * 10 * 10 * 10 * 10 * 10)
IsNaN(x) == x = NaN

\* Number.prototype.toString, computed
FormatNumber(n) ==
    IF IsNaN(n) THEN <<"N", "a", "N">>
    ELSE IF n < 0 THEN <<"-">> \o NatToString(-n) ELSE NatToString(n)

\* The cell coordinates within reach of the walk, and the token counts
NearI == (OAKES_LAT \div TILE_DEGREES) - tileVisibilityRadius - 1
             .. (OAKES_LAT \div TILE_DEGREES) + MaxWalk + tileVisibilityRadius + 1
NearJ == -((-OAKES_LNG) \div TILE_DEGREES) - tileVisibilityRadius - 1
             .. -((-OAKES_LNG) \div TILE_DEGREES) + MaxWalk + tileVisibilityRadius + 1

\* FormatNumber tabulated for the numbers the game formats most
NumberStrings == [n \in NearI \cup NearJ \cup (-1..99) |-> FormatNumber(n)]

\* Number.prototype.toString
NumberToString(n) == IF n \in DOMAIN NumberStrings THEN NumberStrings[n] ELSE FormatNumber(n)

\* null, the result of getItem for an absent key
Null == <<"null">>

IsDigit(c) == \E d \in 1..10 : Digits[d] = c
DigitValue(c) == (CHOOSE d \in 1..10 : Digits[d] = c) - 1

RECURSIVE SkipSpaces(_)
SkipSpaces(s) == IF s # <<>> /\ Head(s) = " " THEN SkipSpaces(Tail(s)) ELSE s

RECURSIVE DigitPrefix(_)
DigitPrefix(s) ==
    IF s # <<>> /\ IsDigit(Head(s)) THEN <<Head(s)>> \o DigitPrefix(Tail(s)) ELSE <<>>

RECURSIVE DigitsValue(_)
DigitsValue(ds) ==
    IF ds = <<>> THEN 0
    ELSE 10 * DigitsValue(SubSeq(ds, 1, Len(ds) - 1)) + DigitValue(ds[Len(ds)])

\* parseInt(s) in radix 10: leading blanks, an optional sign, then the longest
\* run of digits; NaN when there is no digit.
parseInt(s) ==
    LET t == SkipSpaces(s)
        neg == t # <<>> /\ Head(t) = "-"
        u == IF t # <<>> /\ Head(t) \in {"-", "+"} THEN Tail(t) ELSE t
        ds == DigitPrefix(u)
    IN IF ds = <<>> THEN NaN
       ELSE IF neg THEN -DigitsValue(ds) ELSE DigitsValue(ds)

\* the decimal form of a non-negative integer
WellFormed(entry) ==
    entry # Null /\ entry # <<>> /\ \A k \in 1..Len(entry) : IsDigit(entry[k])

-----------------------------------------------------------------------------
(* luck: a pure function from keys to [0,1), in thousandths.  The value is *)
(* a hash of the key's characters, folded left to right.                    *)

LuckChars ==
    <<"0", "1", "2", "3", "4", "5", "6", "7", "8", "9", ",", "-", ":", "#",
      "i", "n", "t", "a", "l", "V", "u", "e">>

CharCode(c) == CHOOSE n \in 1..Len(LuckChars) : LuckChars[n] = c

LuckMod == 9973
LuckAdd == 208
LuckSeed == 11

RECURSIVE LuckHash(_)
LuckHash(key) ==
    IF key = <<>> THEN LuckSeed
    ELSE LET x == LuckHash(SubSeq(key, 1, Len(key) - 1)) + CharCode(key[Len(key)])
         IN (x * x + LuckAdd) % LuckMod

\* LuckHash tabulated for the two keys of each cell within reach of the walk
LuckTable ==
    [key \in UNION {{NumberToString(i) \o <<",">> \o NumberToString(j),
                     NumberToString(i) \o <<",">> \o NumberToString(j)
                        \o <<",", "i", "n", "i", "t", "i", "a", "l", "V", "a", "l", "u", "e">>} :
                    i \in NearI, j \in NearJ}
        |-> LuckHash(key) % 1000]

luck(key) == IF key \in DOMAIN LuckTable THEN LuckTable[key] ELSE LuckHash(key) % 1000

-----------------------------------------------------------------------------
(* board.ts: class Board *)

\* Math.floor(a / b) for b > 0
Floor(a, b) == a \div b

\* Math.floor in the place of Math.ceil
Ceil_AsFloor(a, b) == a \div b

\* Math.ceil(a / b) for b > 0
Ceil(a, b) == -((-a) \div b)

\* [i, j].toString()
CellKey(i, j) == NumberToString(i) \o <<",">> \o NumberToString(j)

\* The object literal {i, j}.  Its identity obj counts the objects created for
\* this key that the registry has held: a literal made while the registry
\* holds none for the key is object 1, one made while it holds object n is a
\* different object, n + 1.
NewCell(known, i, j) ==
    LET key == CellKey(i, j)
    IN [i |-> i, j |-> j,
        obj |-> IF key \in DOMAIN known THEN known[key].obj + 1 ELSE 1]

\* getCanonicalCell storing the new object whether or not the key is known
getCanonicalCell_AlwaysSet(known, cell) ==
    LET key == CellKey(cell.i, cell.j)
        known1 == [k \in DOMAIN known \cup {key} |-> IF k = key THEN cell ELSE known[k]]
    IN [known |-> known1, cell |-> known1[key]]

\* getCanonicalCell: the registry after the call and the cell returned
getCanonicalCell(known, cell) ==
    LET key == CellKey(cell.i, cell.j)
        known1 == IF key \notin DOMAIN known THEN known @@ (key :> cell) ELSE known
    IN [known |-> known1, cell |-> known1[key]]

getCellForPoint(known, point) ==
    getCanonicalCell(known,
        NewCell(known, Floor(point.lat, TILE_DEGREES), Ceil(point.lng, TILE_DEGREES)))

\* one pass of the inner loop's body: resultCells.push(getCanonicalCell({...}))
PushCell(acc, i, j) ==
    LET r == getCanonicalCell(acc.known, NewCell(acc.known, i, j))
    IN [known |-> r.known, cells |-> Append(acc.cells, r.cell)]

\* the inner loop with j < tileVisibilityRadius as its condition
RECURSIVE NearRow_Exclusive(_, _, _, _)
NearRow_Exclusive(acc, originCell, i, j) ==
    IF j >= tileVisibilityRadius THEN acc
    ELSE CHOOSE res \in {NearRow_Exclusive(next, originCell, i, j + 1) :
                            next \in {PushCell(acc, originCell.i + i, originCell.j + j)}} : TRUE

\* the inner loop of getCellsNearPoint, from j on, for row i
RECURSIVE NearRow(_, _, _, _)
NearRow(acc, originCell, i, j) ==
    IF j > tileVisibilityRadius THEN acc
    ELSE CHOOSE res \in {NearRow(next, originCell, i, j + 1) :
                            next \in {PushCell(acc, originCell.i + i, originCell.j + j)}} : TRUE

\* the outer loop of getCellsNearPoint, from i on
RECURSIVE NearRows(_, _, _)
NearRows(acc, originCell, i) ==
    IF i > tileVisibilityRadius THEN acc
    ELSE CHOOSE res \in {NearRows(next, originCell, i + 1) :
                            next \in {NearRow(acc, originCell, i, -tileVisibilityRadius)}} : TRUE

\* getCellsNearPoint: the registry after the call and resultCells
getCellsNearPoint(known, point) ==
    LET o == getCellForPoint(known, point)
    IN NearRows([known |-> o.known, cells |-> <<>>], o.cell, -tileVisibilityRadius)

-----------------------------------------------------------------------------
\* getCellBounds: the two corners it computes, south-west then north-east
getCellBounds(cell) ==
    LET i == cell.i * TILE_DEGREES
        j == cell.j * TILE_DEGREES
    IN <<<<i, j>>, <<i + TILE_DEGREES, j + TILE_DEGREES>>>>

WORLD_ORIGIN == [lat |-> 0, lng |-> 0]

\* addCacheRectangle: the corners of the rectangle drawn for a cache
addCacheRectangle(cache) ==
    LET origin == WORLD_ORIGIN
    IN <<<<origin.lat + cache.i * TILE_DEGREES, origin.lng + cache.j * TILE_DEGREES>>,
         <<origin.lat + (cache.i + 1) * TILE_DEGREES,
           origin.lng + (cache.j + 1) * TILE_DEGREES>>>>

(* The cache state, its memento and the store *)

\* `${i}:${j}`
getCacheKey(i, j) == NumberToString(i) \o <<":">> \o NumberToString(j)

\* `coin${i}`
getCoinKey(i) == <<"c", "o", "i", "n">> \o NumberToString(i)

\* the key of the initial value without its tag
InitialValueKey_Unsalted(i, j) == CellKey(i, j)

\* [i, j, "initialValue"].toString()
InitialValueKey(i, j) ==
    CellKey(i, j) \o <<",", "i", "n", "i", "t", "i", "a", "l", "V", "a", "l", "u", "e">>

\* localStorage.getItem
getItem(store, key) == IF key \in DOMAIN store THEN store[key] ELSE Null

\* localStorage.setItem
setItem(store, key, value) ==
    [k \in DOMAIN store \cup {key} |-> IF k = key THEN value ELSE store[k]]

\* the truthiness of a string or null
Truthy(entry) == entry # Null /\ entry # <<>>

\* a memento that carries the cell with the count
toMemento_WithCell(cache) ==
    NumberToString(cache.i) \o <<":">> \o NumberToString(cache.j)
        \o <<"#">> \o NumberToString(cache.coins)

toMemento(cache) == NumberToString(cache.coins)

fromMemento(memento, i, j) == [i |-> i, j |-> j, coins |-> parseInt(memento)]

\* generateCache reading the luck of the spawn key [i, j]
generateCache_SpawnKey(i, j) ==
    [i |-> i, j |-> j, coins |-> (luck(CellKey(i, j)) * 100) \div 1000]

\* Math.floor(luck(...) * 100)
generateCache(i, j) ==
    [i |-> i, j |-> j, coins |-> (luck(InitialValueKey(i, j)) * 100) \div 1000]

loadCache(store, i, j) ==
    LET entry == getItem(store, getCacheKey(i, j))
    IN IF Truthy(entry) THEN fromMemento(entry, i, j) ELSE generateCache(i, j)

\* saveCache writing under the key of cell (j, i)
saveCache_SwappedKey(store, cache) ==
    setItem(store, getCacheKey(cache.j, cache.i), NumberToString(cache.coins))

saveCache(store, cache) == setItem(store, getCacheKey(cache.i, cache.j), toMemento(cache))

\* renderCache only draws; spawnCache returns the loaded cache
spawnCache(store, i, j) == loadCache(store, i, j)

\* the persist loop of updateDisplayedCaches left out
SaveAll_Skipped(store, caches) == store

\* loadedCaches.forEach(saveCache): the store after every active cache is saved
RECURSIVE SaveAll(_, _)
SaveAll(store, caches) ==
    IF caches = <<>> THEN store
    ELSE SaveAll(saveCache(store, Head(caches)), Tail(caches))

\* the spawn decision of updateDisplayedCaches for one cell
Spawns(cell) == luck(CellKey(cell.i, cell.j)) < CACHE_SPAWN_PROBABILITY

\* the rebuild loop leaving out the cells whose store entry is "0"
RECURSIVE SpawnEach_SkipsDepleted(_, _)
SpawnEach_SkipsDepleted(store, cells) ==
    IF cells = <<>> THEN <<>>
    ELSE (IF Spawns(Head(cells))
             /\ getItem(store, getCacheKey(Head(cells).i, Head(cells).j)) # <<"0">>
          THEN <<spawnCache(store, Head(cells).i, Head(cells).j)>>
          ELSE <<>>) \o SpawnEach_SkipsDepleted(store, Tail(cells))

\* localCells.forEach(...): the caches pushed for the cells, in order
RECURSIVE SpawnEach(_, _)
SpawnEach(store, cells) ==
    IF cells = <<>> THEN <<>>
    ELSE (IF Spawns(Head(cells))
          THEN <<spawnCache(store, Head(cells).i, Head(cells).j)>>
          ELSE <<>>) \o SpawnEach(store, Tail(cells))

\* updateDisplayedCaches without loadedCaches = []: the new caches are pushed
\* after the old ones
updateDisplayedCaches_KeepsOld(loaded, store, known, pos) ==
    LET store1 == SaveAll(store, loaded)
        near == getCellsNearPoint(known, pos)
    IN [loadedCaches |-> loaded \o SpawnEach(store1, near.cells),
        localStorage |-> store1,
        knownCells |-> near.known]

\* updateDisplayedCaches: persist and clear the active set, then rebuild it
updateDisplayedCaches(loaded, store, known, pos) ==
    LET store1 == SaveAll(store, loaded)
        near == getCellsNearPoint(known, pos)
    IN [loadedCaches |-> SpawnEach(store1, near.cells),
        localStorage |-> store1,
        knownCells |-> near.known]

\* loadPlayerCoins restoring nothing
loadPlayerCoins_Nothing(store, acc, i) == acc

\* loadPlayerCoins: the loop from index i on, pushing onto acc
RECURSIVE loadPlayerCoins(_, _, _)
loadPlayerCoins(store, acc, i) ==
    LET serial == getItem(store, getCoinKey(i))
    IN IF ~Truthy(serial) THEN acc
       ELSE loadPlayerCoins(store, Append(acc, serial), i + 1)

\* saveLatestCoin writing under the first index
saveLatestCoin_FirstSlot(store, playerCoins) ==
    setItem(store, getCoinKey(0), playerCoins[Len(playerCoins)])

\* saveLatestCoin writing nothing
saveLatestCoin_Unsaved(store, playerCoins) == store

\* saveLatestCoin writing under the index after the last
saveLatestCoin_NextIndex(store, playerCoins) ==
    LET index == Len(playerCoins)
    IN setItem(store, getCoinKey(index), playerCoins[index])

\* saveLatestCoin
saveLatestCoin(store, playerCoins) ==
    LET index == Len(playerCoins) - 1
    IN setItem(store, getCoinKey(index), playerCoins[index + 1])

\* the serial built from the count before the decrement
Serial_BeforeDecrement(cache) ==
    NumberToString(cache.i) \o <<":">> \o NumberToString(cache.j)
        \o <<"#">> \o NumberToString(cache.coins + 1)

\* `${cache.i}:${cache.j}#${cache.coins}`
Serial(cache) ==
    NumberToString(cache.i) \o <<":">> \o NumberToString(cache.j)
        \o <<"#">> \o NumberToString(cache.coins)

\* the depletion check as cache.coins < 0
Depleted_Strict(cache) == ~IsNaN(cache.coins) /\ cache.coins < 0

\* cache.coins <= 0, which is false of NaN
Depleted(cache) == ~IsNaN(cache.coins) /\ cache.coins <= 0

\* the decrement as an increment
Decrement_Adds(cache) ==
    [cache EXCEPT !.coins = IF IsNaN(cache.coins) THEN NaN ELSE cache.coins + 1]

\* the decrement left out
Decrement_Forgotten(cache) == [cache EXCEPT !.coins = cache.coins]

\* cache.coins -= 1
Decrement(cache) ==
    [cache EXCEPT !.coins = IF IsNaN(cache.coins) THEN NaN ELSE cache.coins - 1]

EmptyStore == [k \in {} |-> <<>>]

-----------------------------------------------------------------------------
(* The script's start-up and the event handlers *)

\* The module's top-level code run against a store: state variables at their
\* initial values, then loadPlayerCoins and updateDisplayedCaches.
Boot(store) ==
    \E u \in {updateDisplayedCaches(<<>>, store, EmptyStore, startPos)} :
       /\ position' = startPos
       /\ coins' = loadPlayerCoins(store, <<>>, 0)
       /\ loadedCaches' = u.loadedCaches
       /\ localStorage' = u.localStorage
       /\ knownCells' = u.knownCells

Init ==
    \E u \in {updateDisplayedCaches(<<>>, EmptyStore, EmptyStore, startPos)} :
       /\ position = startPos
       /\ coins = loadPlayerCoins(EmptyStore, <<>>, 0)
       /\ loadedCaches = u.loadedCaches
       /\ localStorage = u.localStorage
       /\ knownCells = u.knownCells
       /\ issued = <<>>
       /\ event = "load"
       /\ call = [op |-> "none"]
       /\ result = <<>>
       /\ realPositionMode = FALSE
       /\ pending = 0
       /\ popup = <<>>

\* The page is closed and opened again: the in-memory state is dropped, the
\* requests of the old page are never answered, and the script runs against
\* the same store.
Reload ==
    /\ Boot(localStorage)
    /\ event' = "load"
    /\ realPositionMode' = FALSE
    /\ pending' = 0
    /\ UNCHANGED <<issued, call, result, popup>>

\* The click handler of the poke button in the popup of loadedCaches[n]
Poke(n) ==
    LET cache == loadedCaches[n]
    IN IF Depleted(cache)
       THEN /\ event' = "depleted"
            /\ UNCHANGED <<position, coins, loadedCaches, localStorage, knownCells,
                           issued, call, result, sensorVars, popup>>
       ELSE LET cache1 == Decrement(cache)
                coins1 == Append(coins, Serial(cache1))
            IN /\ Len(coins) < MaxCoins
               /\ loadedCaches' = [loadedCaches EXCEPT ![n] = cache1]
               /\ coins' = coins1
               /\ localStorage' = saveLatestCoin(saveCache(localStorage, cache1), coins1)
               /\ issued' = Append(issued, [i |-> cache.i, j |-> cache.j, serial |-> Serial(cache1)])
               /\ event' = "poke"
               /\ UNCHANGED <<position, knownCells, call, result, sensorVars, popup>>

dirToVector ==
    [north |-> <<0, 1>>, south |-> <<0, -1>>, east |-> <<1, 0>>, west |-> <<-1, 0>>]

\* the cell of a point, as getCellForPoint computes it
CellOf(point) ==
    [i |-> Floor(point.lat, TILE_DEGREES), j |-> Ceil(point.lng, TILE_DEGREES)]

\* the points the model lets the player walk to
InWalk(point) ==
    LET di == CellOf(point).i - CellOf(startPos).i
        dj == CellOf(point).j - CellOf(startPos).j
    IN di >= 0 /\ dj >= 0 /\ di + dj <= MaxWalk

\* handlePlayerMoved with the rebuild put off: the active set is persisted and
\* cleared, and the handler returns
handlePlayerMoved_RebuildDeferred(pos) ==
    /\ loadedCaches' = <<>>
    /\ localStorage' = SaveAll(localStorage, loadedCaches)
    /\ knownCells' = knownCells

\* handlePlayerMoved: the listener of the player-moved event
handlePlayerMoved(pos) ==
    \E u \in {updateDisplayedCaches(loadedCaches, localStorage, knownCells, pos)} :
       /\ loadedCaches' = u.loadedCaches
       /\ localStorage' = u.localStorage
       /\ knownCells' = u.knownCells

\* handlePlayerMovement: the click handler of a move button
handlePlayerMovement(direction) ==
    LET lat == position.lat + dirToVector[direction][2] * TILE_DEGREES
        lng == position.lng + dirToVector[direction][1] * TILE_DEGREES
        pos == [lat |-> lat, lng |-> lng]
    IN /\ InWalk(pos)
       /\ position' = pos
       /\ handlePlayerMoved(pos)
       /\ event' = "move"
       /\ UNCHANGED <<coins, issued, call, result, sensorVars, popup>>

\* discardGameState without player.coins = []
discardGameState_KeepsCoins(store) ==
    \E u \in {updateDisplayedCaches(<<>>, store, knownCells, position)} :
       /\ coins' = coins
       /\ loadedCaches' = u.loadedCaches
       /\ localStorage' = u.localStorage
       /\ knownCells' = u.knownCells

\* discardGameState without loadedCaches = [] before the rebuild
discardGameState_SavesActive(store) ==
    \E u \in {updateDisplayedCaches(loadedCaches, store, knownCells, position)} :
       /\ coins' = <<>>
       /\ loadedCaches' = u.loadedCaches
       /\ localStorage' = u.localStorage
       /\ knownCells' = u.knownCells

\* discardGameState, run by the game-reset listener
discardGameState(store) ==
    \E u \in {updateDisplayedCaches(<<>>, store, knownCells, position)} :
       /\ coins' = <<>>
       /\ loadedCaches' = u.loadedCaches
       /\ localStorage' = u.localStorage
       /\ knownCells' = u.knownCells

\* the reset handler without localStorage.clear()
Reset_KeepsStore ==
    /\ discardGameState(localStorage)
    /\ issued' = <<>>
    /\ event' = "reset"
    /\ UNCHANGED <<position, call, result, sensorVars, popup>>

\* The click handler of the reset button, the confirm dialog answered yes:
\* localStorage.clear(), then the game-reset event.
Reset ==
    /\ discardGameState(EmptyStore)
    /\ issued' = <<>>
    /\ event' = "reset"
    /\ UNCHANGED <<position, call, result, sensorVars, popup>>

Next ==
    \/ \E n \in 1..Len(loadedCaches) : Poke(n)
    \/ \E direction \in DOMAIN dirToVector : handlePlayerMovement(direction)
    \/ Reset
    \/ Reload

Spec == Init /\ [][Next]_vars

-----------------------------------------------------------------------------
(* Sensor mode: the game with the sensor button and the geolocation polling *)
(* of update().  A request is answered later, by its success or its error   *)
(* callback, with whatever fix the device reports then.                     *)

MaxPending == 2
MaxSensorCoins == 1

Abs(x) == IF x < 0 THEN -x ELSE x

\* Math.max of the two absolute differences
getDistanceBetween(ax, ay, bx, by) ==
    LET xDiff == Abs(ax - bx)
        yDiff == Abs(ay - by)
    IN IF xDiff >= yDiff THEN xDiff ELSE yDiff

\* the threshold test with >= for >
ExceedsHalfTile_Inclusive(offset) == 2 * offset >= TILE_DEGREES

\* offset > TILE_DEGREES / 2
ExceedsHalfTile(offset) == 2 * offset > TILE_DEGREES

\* the fixes the device reports: half a tile north of the start, and a tile
\* east of it
Fixes ==
    {[lat |-> OAKES_LAT + d[1], lng |-> OAKES_LNG + d[2]] :
        d \in {<<TILE_DEGREES \div 2, 0>>, <<0, TILE_DEGREES>>}}

\* the cells the player is in at the start or at a fix
SensorCells == {CellOf(p) : p \in Fixes \cup {startPos}}

\* The click handler of the sensor button
ToggleSensor ==
    /\ realPositionMode' = ~realPositionMode
    /\ event' = "sensor"
    /\ UNCHANGED <<position, coins, loadedCaches, localStorage, knownCells, issued,
                   call, result, pending, popup>>

\* update() on a frame where currentFrame has passed 10 and sensor mode is on:
\* a getCurrentPosition request is issued.  The other frames only count.
update ==
    /\ realPositionMode
    /\ pending < MaxPending
    /\ pending' = pending + 1
    /\ event' = "sensor"
    /\ UNCHANGED <<position, coins, loadedCaches, localStorage, knownCells, issued,
                   call, result, realPositionMode, popup>>

\* The success callback of getCurrentPosition, called with a fix
FixDelivered(fix) ==
    LET offset == getDistanceBetween(position.lat, position.lng, fix.lat, fix.lng)
    IN /\ pending > 0
       /\ pending' = pending - 1
       /\ call' = [op |-> "fix", point |-> fix]
       /\ event' = "fix"
       /\ IF ExceedsHalfTile(offset)
          THEN /\ position' = fix
               /\ handlePlayerMoved(fix)
          ELSE UNCHANGED <<position, loadedCaches, localStorage, knownCells, popup>>
       /\ UNCHANGED <<coins, issued, result, realPositionMode, popup>>

\* The error callback of getCurrentPosition: the error is logged
FixFailed ==
    /\ pending > 0
    /\ pending' = pending - 1
    /\ event' = "sensor"
    /\ UNCHANGED <<position, coins, loadedCaches, localStorage, knownCells, issued,
                   call, result, realPositionMode, popup>>

\* a poke while the collection is short
PokeSensor(n) == Len(coins) < MaxSensorCoins /\ Poke(n)

\* a button move that stays in the cells of the fixes
MoveSensor(direction) ==
    /\ handlePlayerMovement(direction)
    /\ CellOf(position') \in SensorCells

NextSensor ==
    \/ \E n \in 1..Len(loadedCaches) : PokeSensor(n)
    \/ \E direction \in DOMAIN dirToVector : MoveSensor(direction)
    \/ Reset
    \/ Reload
    \/ ToggleSensor
    \/ update
    \/ \E fix \in Fixes : FixDelivered(fix)
    \/ FixFailed

SpecSensor == Init /\ [][NextSensor]_vars

-----------------------------------------------------------------------------

(* Direct calls of the Board: a fresh board, then getCellForPoint and       *)
(* getCellsNearPoint on points around the origin of the grid.               *)

BoardPoints == {[lat |-> a, lng |-> b] : a \in {-3, 0, 5}, b \in {-7, 0, 3, 10}}

InitBoard ==
    /\ position = startPos
    /\ coins = <<>>
    /\ loadedCaches = <<>>
    /\ localStorage = EmptyStore
    /\ issued = <<>>
    /\ event = "load"
    /\ knownCells = EmptyStore
    /\ call = [op |-> "none"]
    /\ result = <<>>
    /\ realPositionMode = FALSE
    /\ pending = 0
    /\ popup = <<>>

CallGetCellForPoint(p) ==
    \E r \in {getCellForPoint(knownCells, p)} :
       /\ call' = [op |-> "getCellForPoint", point |-> p]
       /\ result' = r.cell
       /\ knownCells' = r.known
       /\ UNCHANGED gameVars

CallGetCellsNearPoint(p) ==
    \E r \in {getCellsNearPoint(knownCells, p)} :
       /\ call' = [op |-> "getCellsNearPoint", point |-> p]
       /\ result' = r.cells
       /\ knownCells' = r.known
       /\ UNCHANGED gameVars

NextBoard ==
    \/ \E p \in BoardPoints : CallGetCellForPoint(p)
    \/ \E p \in BoardPoints : CallGetCellsNearPoint(p)

SpecBoard == InitBoard /\ [][NextBoard]_vars

-----------------------------------------------------------------------------
(* Direct calls of the memento functions: toMemento on a cache with any     *)
(* count 0..99, then fromMemento on the memento it returned.                *)

MementoCells == {<<0, 0>>, <<-1, 2>>, <<OAKES_LAT \div TILE_DEGREES, 5>>}

\* the caches toMemento is called on
MementoCaches == {[i |-> c[1], j |-> c[2], coins |-> n] : c \in MementoCells, n \in 0..99}

CallToMemento(cache) ==
    /\ call' = [op |-> "toMemento", cache |-> cache]
    /\ result' = toMemento(cache)
    /\ UNCHANGED <<gameVars, knownCells>>

\* fromMemento applied to the memento the last call made, for cell (i, j)
CallFromMemento(i, j) ==
    /\ call.op = "toMemento"
    /\ call' = [op |-> "fromMemento", memento |-> result, i |-> i, j |-> j,
                of |-> call.cache]
    /\ result' = fromMemento(result, i, j)
    /\ UNCHANGED <<gameVars, knownCells>>

NextMemento ==
    \/ \E cache \in MementoCaches : CallToMemento(cache)
    \/ \E c \in MementoCells : CallFromMemento(c[1], c[2])

SpecMemento == InitBoard /\ [][NextMemento]_vars

-----------------------------------------------------------------------------
(* Direct calls of loadCache on a store whose cache entries were written    *)
(* from outside the script: localStorage outlives the page and is shared    *)
(* with whatever else runs on the origin.                                   *)

LoadCells == {<<0, 0>>, <<-1, 2>>}

\* the strings found under a cache key: empty, counts, and strings that are
\* not the decimal form of a non-negative integer
StoreEntries ==
    {<<>>, <<"7">>, <<"4", "2">>, <<"a", "b", "c">>, <<"-", "3">>,
     <<"N", "a", "N">>, <<"1", "2", "x">>}

\* an entry of the store is set from outside
TamperStore(i, j, entry) ==
    /\ localStorage' = setItem(localStorage, getCacheKey(i, j), entry)
    /\ call' = [op |-> "setItem"]
    /\ result' = <<>>
    /\ UNCHANGED <<position, coins, loadedCaches, knownCells, issued, event, sensorVars, popup>>

CallLoadCache(i, j) ==
    /\ call' = [op |-> "loadCache", i |-> i, j |-> j,
                entry |-> getItem(localStorage, getCacheKey(i, j))]
    /\ result' = loadCache(localStorage, i, j)
    /\ UNCHANGED <<gameVars, knownCells>>

NextLoad ==
    \/ \E c \in LoadCells, entry \in StoreEntries : TamperStore(c[1], c[2], entry)
    \/ \E c \in LoadCells : CallLoadCache(c[1], c[2])

SpecLoad == InitBoard /\ [][NextLoad]_vars

-----------------------------------------------------------------------------

(* The variant of the script in main.ts: updateCache runs once, at the      *)
(* start position, and spawnCache binds to each rectangle a popup whose     *)
(* content is a function.  The map calls the function whenever the popup    *)
(* of the rectangle is opened; one popup is open at a time.                 *)

\* the pokes of a run that succeed
MaxPopupCoins == 4

\* Math.floor(luck([i, j, "initialValue"].toString()) * 100)
pointValue(i, j) == (luck(InitialValueKey(i, j)) * 100) \div 1000

\* i.toString() + ":" + j.toString() + '#' + pointValue.toString()
PopupSerial(i, j) ==
    NumberToString(i) \o <<":">> \o NumberToString(j)
        \o <<"#">> \o NumberToString(pointValue(i, j))

\* updateCache: the cells spawnCache was called for
updateCache ==
    LET localCells == getCellsNearPoint(EmptyStore, startPos).cells
    IN {<<localCells[n].i, localCells[n].j>> : n \in {m \in 1..Len(localCells) : Spawns(localCells[m])}}

InitPopup == InitBoard

\* the rectangle of a cell is clicked while its popup is not open: the
\* function bound by bindPopup runs and builds new Cache(pointValue)
OpenPopup(site) ==
    /\ site \in updateCache
    /\ IF popup = <<>> THEN TRUE ELSE <<popup[1].i, popup[1].j>> # site
    /\ popup' = <<[i |-> site[1], j |-> site[2], coins |-> pointValue(site[1], site[2])]>>
    /\ event' = "open"
    /\ UNCHANGED <<position, coins, loadedCaches, localStorage, knownCells, issued,
                   call, result, sensorVars>>

\* the open popup is closed
ClosePopup ==
    /\ popup # <<>>
    /\ popup' = <<>>
    /\ event' = "close"
    /\ UNCHANGED <<position, coins, loadedCaches, localStorage, knownCells, issued,
                   call, result, sensorVars>>

\* the click handler of the poke button of the open popup
PokePopup ==
    /\ popup # <<>>
    /\ LET cache == popup[1]
       IN IF cache.coins <= 0
          THEN /\ event' = "depleted"
               /\ UNCHANGED <<coins, popup>>
          ELSE /\ Len(coins) < MaxPopupCoins
               /\ popup' = <<[cache EXCEPT !.coins = cache.coins - 1]>>
               /\ coins' = Append(coins, PopupSerial(cache.i, cache.j))
               /\ event' = "poke"
    /\ UNCHANGED <<position, loadedCaches, localStorage, knownCells, issued,
                   call, result, sensorVars>>

NextPopup ==
    \/ \E site \in updateCache : OpenPopup(site)
    \/ ClosePopup
    \/ PokePopup

SpecPopup == InitPopup /\ [][NextPopup]_vars

(* Direct calls of the two key builders on pairs of cells.                  *)

KeyCoords == {-12, -1, 0, 1, 2, 12}

\* the pairs of cells the keys are built for
KeyPairs == {<<a, b>> : a \in KeyCoords \X KeyCoords, b \in KeyCoords \X KeyCoords}

\* the key of the initial value of cell a and the key of the spawn decision
\* of cell b are built, as generateCache and updateDisplayedCaches build them
CallKeys(pair) ==
    /\ call' = [op |-> "keys", a |-> pair[1], b |-> pair[2]]
    /\ result' = [initial |-> InitialValueKey(pair[1][1], pair[1][2]),
                  spawn |-> CellKey(pair[2][1], pair[2][2])]
    /\ UNCHANGED <<gameVars, knownCells>>

NextKeys == \E pair \in KeyPairs : CallKeys(pair)

SpecKeys == InitBoard /\ [][NextKeys]_vars

-----------------------------------------------------------------------------

(* Properties of the game, checked under Spec *)

\* the number of successful withdrawals from cell (i, j) since it was generated
Withdrawn(i, j) == Cardinality({n \in 1..Len(issued) : issued[n].i = i /\ issued[n].j = j})

\* the distance between two cells in tiles, the larger of the two axes
TileDistance(a, b) ==
    LET di == IF a.i >= b.i THEN a.i - b.i ELSE b.i - a.i
        dj == IF a.j >= b.j THEN a.j - b.j ELSE b.j - a.j
    IN IF di >= dj THEN di ELSE dj

IsActive(i, j) == \E n \in 1..Len(loadedCaches) : loadedCaches[n].i = i /\ loadedCaches[n].j = j

\* the position of the first c in s
IndexOf(s, c) == CHOOSE n \in 1..Len(s) : s[n] = c /\ \A m \in 1..(n - 1) : s[m] # c

\* the cell and the sequence number read back from a serial i:j#n
DecodeSerial(s) ==
    LET a == IndexOf(s, ":")
        b == IndexOf(s, "#")
    IN <<parseInt(SubSeq(s, 1, a - 1)), parseInt(SubSeq(s, a + 1, b - 1)),
         parseInt(SubSeq(s, b + 1, Len(s)))>>

\* the keys of the store that hold the player's coins
CoinKeys ==
    {k \in DOMAIN localStorage : Len(k) > 4 /\ SubSeq(k, 1, 4) = <<"c", "o", "i", "n">>}

\* the caches that are active when the script starts on an empty store
StartCaches ==
    SpawnEach(EmptyStore, getCellsNearPoint(EmptyStore, startPos).cells)

\* C1: in every reachable state (after any withdrawals, moves, reloads), loading
\* the cache of any cell from the store yields its generated count minus the
\* number of successful withdrawals made from it since it was generated; so a
\* cache that left the visible set comes back with the count it left with.
C1_LoadYieldsRemaining ==
    \A i \in NearI, j \in NearJ :
        loadCache(localStorage, i, j).coins = generateCache(i, j).coins - Withdrawn(i, j)

\* C1 witness: a token was taken from cache A, later one from a cache B that is
\* too far from A for both to be visible at once, and A is active again with
\* its reduced count.
C1_Witness ==
    \E a, b \in 1..Len(issued) :
        /\ a < b
        /\ TileDistance(issued[a], issued[b]) > 2 * tileVisibilityRadius
        /\ \E n \in 1..Len(loadedCaches) :
              /\ loadedCaches[n].i = issued[a].i
              /\ loadedCaches[n].j = issued[a].j
              /\ loadedCaches[n].coins = generateCache(issued[a].i, issued[a].j).coins - 1

\* C2: every active cache holds its generated count minus the number of
\* successful withdrawals from it since the last reset, and the serials issued
\* from it are pairwise distinct.
C2_WithdrawalMonotonicity ==
    \A n \in 1..Len(loadedCaches) :
        LET c == loadedCaches[n]
            from == {a \in 1..Len(issued) : issued[a].i = c.i /\ issued[a].j = c.j}
        IN /\ c.coins = generateCache(c.i, c.j).coins - Cardinality(from)
           /\ \A a, b \in from : a # b => issued[a].serial # issued[b].serial

\* C2 witness: an active cache after two successful withdrawals
C2_Witness ==
    \E n \in 1..Len(loadedCaches) :
        /\ Withdrawn(loadedCaches[n].i, loadedCaches[n].j) = 2
        /\ loadedCaches[n].coins = generateCache(loadedCaches[n].i, loadedCaches[n].j).coins - 2

\* C3: a poke click on a cache whose count is 0 changes neither the active
\* caches, nor the player's collection, nor any entry of the store.
C3_DepletedChangesNothing ==
    [][\A n \in 1..Len(loadedCaches) :
          (loadedCaches[n].coins = 0 /\ Poke(n))
              => UNCHANGED <<loadedCaches, coins, localStorage>>]_vars

\* C3 witness: the poke handler has just rejected a click on a cache that
\* withdrawals emptied.
C3_Witness ==
    /\ event = "depleted"
    /\ \E n \in 1..Len(loadedCaches) :
          /\ loadedCaches[n].coins = 0
          /\ Withdrawn(loadedCaches[n].i, loadedCaches[n].j) > 0

\* C4: a successful poke on the cache of cell (i, j) lowers its count by one and
\* appends exactly one token to the collection, whose serial reads back as
\* (i, j, the count after the decrement).
C4_WithdrawalIssuesToken ==
    [][\A n \in 1..Len(loadedCaches) :
          (Poke(n) /\ loadedCaches[n].coins > 0)
              => /\ loadedCaches'[n].coins = loadedCaches[n].coins - 1
                 /\ Len(coins') = Len(coins) + 1
                 /\ SubSeq(coins', 1, Len(coins)) = coins
                 /\ DecodeSerial(coins'[Len(coins')])
                       = <<loadedCaches[n].i, loadedCaches[n].j, loadedCaches'[n].coins>>]_vars

\* C4 witness: a successful poke has just added a token whose serial reads back
\* as the cell and the remaining count of an active cache.
C4_Witness ==
    /\ event = "poke"
    /\ coins # <<>>
    /\ \E n \in 1..Len(loadedCaches) :
          DecodeSerial(coins[Len(coins)])
              = <<loadedCaches[n].i, loadedCaches[n].j, loadedCaches[n].coins>>

\* C5: the serials of the player's collection are pairwise distinct, in memory
\* and under the persisted coin keys.
C5_SerialsDistinct ==
    /\ \A a, b \in 1..Len(coins) : a # b => coins[a] # coins[b]
    /\ \A k1, k2 \in CoinKeys : k1 # k2 => localStorage[k1] # localStorage[k2]

\* C5 witness: two tokens collected after a reset.  A cache that was active at
\* start-up and is not active now was saved when the player moved away, so its
\* missing store entry shows that a reset cleared the store since.
C5_Witness ==
    /\ Len(coins) = 2
    /\ Cardinality(CoinKeys) = 2
    /\ \E n \in 1..Len(StartCaches) :
          /\ ~IsActive(StartCaches[n].i, StartCaches[n].j)
          /\ getCacheKey(StartCaches[n].i, StartCaches[n].j) \notin DOMAIN localStorage

\* the count generateCache is to give cell (i, j): floor(luck(key) * 100) for
\* the key "i,j,initialValue", spelled out
ComputeInitialValue(i, j) ==
    LET key == FormatNumber(i) \o <<",">> \o FormatNumber(j) \o <<",">>
                   \o <<"i", "n", "i", "t", "i", "a", "l", "V", "a", "l", "u", "e">>
    IN ((LuckHash(key) % 1000) * 100) \div 1000

\* ComputeInitialValue tabulated for the cells within reach of the walk
InitialValues == [c \in NearI \X NearJ |-> ComputeInitialValue(c[1], c[2])]

ExpectedInitialValue(i, j) ==
    IF <<i, j>> \in DOMAIN InitialValues THEN InitialValues[<<i, j>>]
    ELSE ComputeInitialValue(i, j)

\* C9: whatever the store holds and whatever happened before, a cache that is
\* active and was never withdrawn from holds floor(luck("i,j,initialValue") * 100),
\* an integer in 0..99, and generateCache gives that same count in every state.
C9_GenerateDeterministic ==
    \A n \in 1..Len(loadedCaches) :
        LET c == loadedCaches[n]
        IN /\ generateCache(c.i, c.j).coins = ExpectedInitialValue(c.i, c.j)
           /\ generateCache(c.i, c.j).coins \in 0..99
           /\ Withdrawn(c.i, c.j) = 0 => c.coins = ExpectedInitialValue(c.i, c.j)

\* C9 witness: after a reset that followed withdrawals and a move, the caches
\* are generated again and hold their initial counts.
C9_Witness ==
    /\ event = "reset"
    /\ position # startPos
    /\ loadedCaches # <<>>
    /\ \A n \in 1..Len(loadedCaches) :
          loadedCaches[n].coins = ExpectedInitialValue(loadedCaches[n].i, loadedCaches[n].j)

\* the keys of the store that hold cache counts: those that are no coin keys
CacheKeys == DOMAIN localStorage \ CoinKeys

\* C11: right after a confirmed reset the store holds no cache entry and no
\* coin entry, the player's collection is empty, and so the rebuild of the
\* reset has written back no count of a cache that was active before it.
C11_ResetClearsEverything ==
    event = "reset" =>
        /\ CacheKeys = {}
        /\ CoinKeys = {}
        /\ localStorage = EmptyStore
        /\ coins = <<>>

\* C11 witness: a reset made away from the start, so after at least one move
\* had saved the caches that were active before it.
C11_Witness ==
    /\ event = "reset"
    /\ position # startPos
    /\ localStorage = EmptyStore
    /\ coins = <<>>

\* C12: right after a reset, whatever withdrawals and moves came before it,
\* loading the cache of any cell gives the generated value of the cell, and the
\* active caches hold their generated values: the state of a first-ever load.
C12_ResetRegenerates ==
    event = "reset" =>
        /\ \A i \in NearI, j \in NearJ :
              loadCache(localStorage, i, j).coins = ExpectedInitialValue(i, j)
        /\ \A n \in 1..Len(loadedCaches) :
              loadedCaches[n].coins = ExpectedInitialValue(loadedCaches[n].i, loadedCaches[n].j)
        /\ position = startPos => loadedCaches = StartCaches

\* C12 witness: a reset at the start position after the player had walked
\* away and back, with the caches of the first load active again.
C12_Witness ==
    /\ event = "reset"
    /\ position = startPos
    /\ Cardinality(DOMAIN knownCells) >
          (2 * tileVisibilityRadius + 1) * (2 * tileVisibilityRadius + 1)
    /\ loadedCaches = StartCaches
    /\ loadedCaches # <<>>

\* the cells within tileVisibilityRadius of the player's cell
VisibleCells ==
    {<<CellOf(position).i + di, CellOf(position).j + dj>> :
        di \in -tileVisibilityRadius..tileVisibilityRadius,
        dj \in -tileVisibilityRadius..tileVisibilityRadius}

\* luck of the spawn key "i,j", spelled out
SpawnLuck(i, j) == LuckHash(FormatNumber(i) \o <<",">> \o FormatNumber(j)) % 1000

\* the cells of the active set, in order
ActiveCells == [n \in 1..Len(loadedCaches) |-> <<loadedCaches[n].i, loadedCaches[n].j>>]

\* C14: between handlers (after start-up, every move and every reset) the
\* active set holds exactly one cache for each cell near the player whose spawn
\* luck is below CACHE_SPAWN_PROBABILITY and no cache for any other cell; so
\* nothing of the previous active set is carried over.
C14_ActiveSetIsRebuilt ==
    /\ \A a, b \in 1..Len(loadedCaches) : a # b => ActiveCells[a] # ActiveCells[b]
    /\ {ActiveCells[n] : n \in 1..Len(loadedCaches)}
          = {c \in VisibleCells : SpawnLuck(c[1], c[2]) < CACHE_SPAWN_PROBABILITY}

\* C14 witness: after a move, a cache of the first active set is no longer
\* active and a cache that was not in it is.
C14_Witness ==
    /\ event = "move"
    /\ \E n \in 1..Len(StartCaches) : ~IsActive(StartCaches[n].i, StartCaches[n].j)
    /\ \E n \in 1..Len(loadedCaches) :
          \A m \in 1..Len(StartCaches) :
             <<StartCaches[m].i, StartCaches[m].j>> # ActiveCells[n]

\* C15: a successful withdrawal leaves, under the key "i:j" of the cache it
\* took from, the decimal string of the cache's new count; and a player move
\* leaves, under the key of every cache it drops from the active set, the
\* decimal string of the count the cache had when it was dropped.
C15_PersistedOnPokeAndEvict ==
    [][/\ event' = "poke" =>
             \A n \in 1..Len(loadedCaches) :
                loadedCaches'[n] # loadedCaches[n] =>
                   getItem(localStorage', getCacheKey(loadedCaches[n].i, loadedCaches[n].j))
                      = FormatNumber(loadedCaches'[n].coins)
       /\ event' = "move" =>
             \A n \in 1..Len(loadedCaches) :
                (\A m \in 1..Len(loadedCaches') :
                    <<loadedCaches'[m].i, loadedCaches'[m].j>> # ActiveCells[n]) =>
                   getItem(localStorage', getCacheKey(loadedCaches[n].i, loadedCaches[n].j))
                      = FormatNumber(loadedCaches[n].coins)]_vars

\* C15 witness: a cache of the first active set was withdrawn from and then
\* dropped by a move; the store holds what was left in it.
C15_Witness ==
    /\ event = "move"
    /\ \E n \in 1..Len(StartCaches) :
          LET c == StartCaches[n]
          IN /\ ~IsActive(c.i, c.j)
             /\ Withdrawn(c.i, c.j) > 0
             /\ getItem(localStorage, getCacheKey(c.i, c.j))
                   = FormatNumber(c.coins - Withdrawn(c.i, c.j))

\* the count of cell (i, j) given an active set and a store: that of its active
\* cache, else what loadCache makes of the store
CountIn(loaded, store, i, j) ==
    IF \E n \in 1..Len(loaded) : loaded[n].i = i /\ loaded[n].j = j
    THEN loaded[CHOOSE n \in 1..Len(loaded) : loaded[n].i = i /\ loaded[n].j = j].coins
    ELSE loadCache(store, i, j).coins

\* whether a key of the store is a coin key
IsCoinKey(k) == Len(k) > 4 /\ SubSeq(k, 1, 4) = <<"c", "o", "i", "n">>

\* the cell a cache key "i:j" names, read from the key
ParseKey(k) ==
    LET a == IndexOf(k, ":")
    IN <<parseInt(SubSeq(k, 1, a - 1)), parseInt(SubSeq(k, a + 1, Len(k)))>>

\* the keys of the cells within reach of the walk, each with its cell
NearKeys == [c \in NearI \X NearJ |-> getCacheKey(c[1], c[2])]
KeyCells == [k \in {NearKeys[c] : c \in NearI \X NearJ} |->
                CHOOSE c \in NearI \X NearJ : NearKeys[c] = k]

KeyCell(k) == IF k \in DOMAIN KeyCells THEN KeyCells[k] ELSE ParseKey(k)

\* the cells that have an active cache or a store entry
TouchedCells(loaded, store) ==
    {<<loaded[n].i, loaded[n].j>> : n \in 1..Len(loaded)}
        \cup {KeyCell(k) : k \in {x \in DOMAIN store : ~IsCoinKey(x)}}

\* the counts are within 0..v in the active set and in the store
CountsWithinValue ==
    /\ \A n \in 1..Len(loadedCaches) :
          loadedCaches[n].coins \in 0..ExpectedInitialValue(loadedCaches[n].i, loadedCaches[n].j)
    /\ \A k \in CacheKeys :
          \E c \in {KeyCell(k)} :
             /\ k = getCacheKey(c[1], c[2])
             /\ WellFormed(localStorage[k])
             /\ parseInt(localStorage[k]) \in 0..ExpectedInitialValue(c[1], c[2])

\* C18: in every reachable state every active cache and every persisted cache
\* entry holds an integer count between 0 and the generated value v of its
\* cell; and no step raises the count of any cell above what it was before the
\* step, except a reset, which leaves it at v.  A cell with no active cache and
\* no store entry before and after a step has the count v on both sides.
C18_CountsBoundedAndFalling ==
    /\ []CountsWithinValue
    /\ [][\A c \in TouchedCells(loadedCaches, localStorage)
                     \cup TouchedCells(loadedCaches', localStorage') :
             IF event' = "reset"
             THEN CountIn(loadedCaches', localStorage', c[1], c[2])
                     = ExpectedInitialValue(c[1], c[2])
             ELSE CountIn(loadedCaches', localStorage', c[1], c[2])
                     <= CountIn(loadedCaches, localStorage, c[1], c[2])]_vars

\* C18 witness: an active cache was withdrawn from until it was empty, and the
\* store holds its count of zero.
C18_Witness ==
    \E n \in 1..Len(loadedCaches) :
        /\ loadedCaches[n].coins = 0
        /\ Withdrawn(loadedCaches[n].i, loadedCaches[n].j) > 0
        /\ getItem(localStorage, getCacheKey(loadedCaches[n].i, loadedCaches[n].j)) = <<"0">>

\* C20: between handlers the coin keys of the store are exactly coin0 ..
\* coin{n-1}, n the length of the collection, and coin{k} holds the serial of
\* the k-th token (counted from 0); so loadPlayerCoins on an empty collection
\* gives the collection back, in order.
C20_CoinKeysMirrorCollection ==
    /\ CoinKeys = {getCoinKey(k) : k \in 0..(Len(coins) - 1)}
    /\ \A k \in 0..(Len(coins) - 1) : localStorage[getCoinKey(k)] = coins[k + 1]
    /\ loadPlayerCoins(localStorage, <<>>, 0) = coins

\* C20 witness: a session loaded with two different tokens in the collection,
\* in the order they were withdrawn.
C20_Witness ==
    /\ event = "load"
    /\ Len(coins) = 2
    /\ coins[1] # coins[2]
    /\ Len(issued) = 2
    /\ coins = <<issued[1].serial, issued[2].serial>>

\* the tokens cell c has left: the count of its active cache, else the count
\* the store holds for it, else its generated value
TokensRemaining(c) ==
    IF IsActive(c[1], c[2])
    THEN loadedCaches[CHOOSE n \in 1..Len(loadedCaches) :
                         loadedCaches[n].i = c[1] /\ loadedCaches[n].j = c[2]].coins
    ELSE IF NearKeys[c] \in DOMAIN localStorage
    THEN parseInt(localStorage[NearKeys[c]])
    ELSE InitialValues[c]

\* the cells the tokens of the collection came from, read from the serials
Origins ==
    [n \in 1..Len(coins) |-> <<DecodeSerial(coins[n])[1], DecodeSerial(coins[n])[2]>>]

\* the number of tokens from cell c, given the origins of the collection
Collected(origins, c) == Cardinality({n \in 1..Len(origins) : origins[n] = c})

\* C24: between handlers, for every cell, the tokens the cell has left plus the
\* tokens of the player's collection that came from it equal the cell's
\* generated value.  (A cell with no active cache and no store entry has its
\* generated value left by definition, so the cells to look at are those with
\* a cache, an entry or a token in the collection.)
C24_TokensConserved ==
    \E origins \in {Origins} :
        \A c \in TouchedCells(loadedCaches, localStorage)
                  \cup {origins[n] : n \in 1..Len(origins)} :
            /\ c \in NearI \X NearJ
            /\ TokensRemaining(c) + Collected(origins, c) = InitialValues[c]

\* C24 witness: the collection holds tokens of two cells, one of them no longer
\* active and with its reduced count in the store only.
C24_Witness ==
    /\ Len(coins) = 2
    /\ \E c \in NearI \X NearJ :
          /\ Collected(Origins, c) = 1
          /\ ~IsActive(c[1], c[2])
          /\ NearKeys[c] \in DOMAIN localStorage
          /\ TokensRemaining(c) = InitialValues[c] - 1

\* C26: a successful withdrawal from the cache of one cell takes one token from
\* that cache and leaves the count of every other active cache, every store
\* entry under another cell's key, every coin key there was, the cells of the
\* active set and the player's position as they were; the only keys it adds
\* are that cell's key and the key of the new coin.
C26_WithdrawalFrame ==
    [][event' = "poke" =>
          \E n \in 1..Len(loadedCaches) :
             /\ Len(loadedCaches') = Len(loadedCaches)
             /\ loadedCaches'[n] = [loadedCaches[n] EXCEPT !.coins = loadedCaches[n].coins - 1]
             /\ \A m \in 1..Len(loadedCaches) : m # n => loadedCaches'[m] = loadedCaches[m]
             /\ position' = position
             /\ \A k \in DOMAIN localStorage :
                   k # getCacheKey(loadedCaches[n].i, loadedCaches[n].j) =>
                      k \in DOMAIN localStorage' /\ localStorage'[k] = localStorage[k]
             /\ (DOMAIN localStorage') \ (DOMAIN localStorage)
                   \subseteq {getCacheKey(loadedCaches[n].i, loadedCaches[n].j),
                              getCoinKey(Len(coins))}]_vars

\* C26 witness: a withdrawal was just made from one active cache while another
\* active cache, withdrawn from before, has its reduced count in the store and
\* its token under coin0.
C26_Witness ==
    /\ event = "poke"
    /\ Len(issued) = 2
    /\ <<issued[1].i, issued[1].j>> # <<issued[2].i, issued[2].j>>
    /\ IsActive(issued[1].i, issued[1].j)
    /\ IsActive(issued[2].i, issued[2].j)
    /\ getItem(localStorage, getCoinKey(0)) = issued[1].serial
    /\ getItem(localStorage, getCacheKey(issued[1].i, issued[1].j))
          = FormatNumber(generateCache(issued[1].i, issued[1].j).coins - 1)

-----------------------------------------------------------------------------
(* Properties of the Board, checked under SpecBoard *)

\* the cells the last Board call returned
Returned ==
    IF call.op = "getCellForPoint" THEN {result}
    ELSE IF call.op = "getCellsNearPoint" THEN {result[n] : n \in 1..Len(result)}
    ELSE {}

\* C6: no call replaces a registered cell, every cell a call returns is the
\* one stored under its key, and when that key was registered before the call
\* the cell returned is the very object registered then.
C6_CanonicalIdentity ==
    [][/\ \A k \in DOMAIN knownCells :
             k \in DOMAIN knownCells' /\ knownCells'[k] = knownCells[k]
       /\ \A c \in Returned' :
             LET k == CellKey(c.i, c.j)
             IN /\ k \in DOMAIN knownCells'
                /\ knownCells'[k] = c
                /\ k \in DOMAIN knownCells => c = knownCells[k]]_vars

\* C6 witness: getCellForPoint has returned a cell while the registry holds
\* more cells than direct getCellForPoint calls can register, so an earlier
\* getCellsNearPoint call had registered the cell returned.
C6_Witness ==
    /\ call.op = "getCellForPoint"
    /\ Cardinality(DOMAIN knownCells) > Cardinality({CellOf(p) : p \in BoardPoints})
    /\ result = knownCells[CellKey(result.i, result.j)]

\* C7: getCellsNearPoint returns (2r+1)^2 cells, the n-th being the origin
\* cell moved by (di, dj) in row-major order with di outermost, each from -r to
\* r, and no two entries have the same (i, j).
C7_NeighbourhoodRowMajor ==
    call.op = "getCellsNearPoint" =>
        LET w == 2 * tileVisibilityRadius + 1
            oi == Floor(call.point.lat, TILE_DEGREES)
            oj == Ceil(call.point.lng, TILE_DEGREES)
        IN /\ Len(result) = w * w
           /\ \A n \in 1..Len(result) :
                 /\ result[n].i = oi + ((n - 1) \div w) - tileVisibilityRadius
                 /\ result[n].j = oj + ((n - 1) % w) - tileVisibilityRadius
           /\ \A a, b \in 1..Len(result) :
                 a # b => <<result[a].i, result[a].j>> # <<result[b].i, result[b].j>>

\* C7 witness: a neighbourhood returned for a point south of the equator
C7_Witness ==
    /\ call.op = "getCellsNearPoint"
    /\ call.point.lat < 0
    /\ Len(result) = (2 * tileVisibilityRadius + 1) * (2 * tileVisibilityRadius + 1)
    /\ result[1].i = -1 - tileVisibilityRadius

\* C8: getCellForPoint returns the cell with i = floor(lat / tileWidth) and
\* j = ceil(lng / tileWidth): i * w <= lat < (i + 1) * w and
\* (j - 1) * w < lng <= j * w.  The point (0.00005, 0.00003) maps to (0, 1), and
\* a longitude that is a multiple of the tile width maps to j = lng / w.
C8_FloorLatCeilLng ==
    call.op = "getCellForPoint" =>
        /\ result.i * TILE_DEGREES <= call.point.lat
        /\ call.point.lat < (result.i + 1) * TILE_DEGREES
        /\ (result.j - 1) * TILE_DEGREES < call.point.lng
        /\ call.point.lng <= result.j * TILE_DEGREES
        /\ call.point = [lat |-> 5, lng |-> 3] => (result.i = 0 /\ result.j = 1)
        /\ call.point.lng % TILE_DEGREES = 0 => result.j * TILE_DEGREES = call.point.lng

\* C8 witness: the cell returned for the point (0.00005, 0.00003)
C8_Witness ==
    /\ call.op = "getCellForPoint"
    /\ call.point = [lat |-> 5, lng |-> 3]
    /\ result.i = 0
    /\ result.j = 1

\* whether a point lies within the corners of a rectangle, edges included
Inside(point, corners) ==
    /\ corners[1][1] <= point.lat /\ point.lat <= corners[2][1]
    /\ corners[1][2] <= point.lng /\ point.lng <= corners[2][2]

\* C27: every point lies inside the rectangle of its own cell: with (i, j) the
\* cell getCellForPoint returns for p, i * w <= p.lat <= (i + 1) * w and
\* j * w <= p.lng <= (j + 1) * w, the corners of getCellBounds and of the
\* rectangle drawn for a cache of the cell.
C27_PointInsideItsCell ==
    call.op = "getCellForPoint" =>
        /\ Inside(call.point, getCellBounds(result))
        /\ Inside(call.point, addCacheRectangle([i |-> result.i, j |-> result.j, coins |-> 0]))

-----------------------------------------------------------------------------
(* Properties of the memento, checked under SpecMemento *)

\* C10: the memento of a cache with count n in 0..99 is made of digits only
\* and is the same whatever the cell, and fromMemento of it, for any cell
\* (i, j), is the cache of (i, j) with count n.
C10_MementoRoundTrip ==
    /\ call.op = "toMemento" =>
          /\ \A k \in 1..Len(result) : IsDigit(result[k])
          /\ \A c \in MementoCells :
                toMemento([i |-> c[1], j |-> c[2], coins |-> call.cache.coins]) = result
    /\ call.op = "fromMemento" =>
          /\ result.coins = call.of.coins
          /\ result.i = call.i
          /\ result.j = call.j

\* C10 witness: a cache with 99 tokens restored for another cell
C10_Witness ==
    /\ call.op = "fromMemento"
    /\ call.of.coins = 99
    /\ <<call.i, call.j>> # <<call.of.i, call.of.j>>
    /\ result.coins = 99

-----------------------------------------------------------------------------
(* Properties of loadCache, checked under SpecLoad *)

\* C13: when the entry under the key of a cell is present but is not the
\* decimal form of a non-negative integer, loadCache returns the generated
\* cache of the cell, and the count it returns is always a non-negative integer.
C13_MalformedFallsBack ==
    call.op = "loadCache" =>
        /\ (call.entry # Null /\ ~WellFormed(call.entry)) =>
              result = generateCache(call.i, call.j)
        /\ result.coins \in Nat

-----------------------------------------------------------------------------
(* Properties of sensor mode, checked under SpecSensor *)

\* the discrepancy between the tracked position and the fix just delivered
FixOffset(fix) ==
    LET dLat == IF position.lat >= fix.lat THEN position.lat - fix.lat
                ELSE fix.lat - position.lat
        dLng == IF position.lng >= fix.lng THEN position.lng - fix.lng
                ELSE fix.lng - position.lng
    IN IF dLat >= dLng THEN dLat ELSE dLng

\* what one run of the player-moved pipeline makes of the state, the player at pos
OneRun(pos) == updateDisplayedCaches(loadedCaches, localStorage, knownCells, pos)

\* C16: for every fix delivered: when its discrepancy from the tracked position
\* is more than half a tile width, the position becomes the fix and the active
\* set, the store and the registry are what one run of updateDisplayedCaches
\* makes of them; when it is at most half a tile width, the position, the
\* active set and the store are unchanged.  The collection is never touched.
C16_FixMovesBeyondHalfTile ==
    [][event' = "fix" =>
          /\ IF 2 * FixOffset(call'.point) > TILE_DEGREES
             THEN /\ position' = call'.point
                  /\ \E u \in {OneRun(call'.point)} :
                        /\ loadedCaches' = u.loadedCaches
                        /\ localStorage' = u.localStorage
                        /\ knownCells' = u.knownCells
             ELSE UNCHANGED <<position, loadedCaches, localStorage, knownCells>>
          /\ UNCHANGED coins]_vars

\* C16 witness: a fix has moved the player to another cell and a cache of the
\* first active set is no longer active.
C16_Witness ==
    /\ event = "fix"
    /\ position = call.point
    /\ CellOf(position) # CellOf(startPos)
    /\ \E n \in 1..Len(StartCaches) : ~IsActive(StartCaches[n].i, StartCaches[n].j)

\* C17: every step is one whole handler applied to the state the handler
\* before it left.  A step that moves the player, by a button or by a fix and
\* with any number of requests outstanding, leaves what one complete run of
\* the pipeline makes of the state just before it; a reset leaves one complete
\* run on the cleared store and a reload one complete run from the start; every
\* other step leaves the cells of the active set alone.  So no handler starts
\* from an active set that is persisted or cleared but not rebuilt.
C17_HandlersRunOneAtATime ==
    [][/\ (position' # position /\ event' # "load") =>
             /\ event' \in {"move", "fix"}
             /\ \E u \in {OneRun(position')} :
                   /\ loadedCaches' = u.loadedCaches
                   /\ localStorage' = u.localStorage
                   /\ knownCells' = u.knownCells
       /\ (position' = position /\ event' \in {"poke", "depleted", "sensor", "fix"}) =>
             ActiveCells' = ActiveCells
       /\ event' = "reset" =>
             loadedCaches' = updateDisplayedCaches(<<>>, EmptyStore, knownCells,
                                                   position).loadedCaches
       /\ (event' = "load" /\ event # "load") =>
             loadedCaches' = updateDisplayedCaches(<<>>, localStorage, EmptyStore,
                                                   startPos).loadedCaches]_vars

\* C17 witness: a button move made after a fix was delivered and while as many
\* requests as the model allows are outstanding.
C17_Witness ==
    /\ event = "move"
    /\ call.op = "fix"
    /\ pending = MaxPending
    /\ pending >= 2
    /\ position # call.point

\* whether sequence s is a prefix of sequence t
IsPrefix(s, t) == Len(s) <= Len(t) /\ SubSeq(t, 1, Len(s)) = s

FirstRunCells(i, j) ==
    LET corner == [lat |-> i * TILE_DEGREES, lng |-> j * TILE_DEGREES]
        run == updateDisplayedCaches(<<>>, EmptyStore, EmptyStore, corner)
    IN [n \in 1..Len(run.loadedCaches) |->
            <<run.loadedCaches[n].i, run.loadedCaches[n].j>>]

\* FirstRunCells for the cells the player can be in
FirstRuns == [c \in NearI \X NearJ |-> FirstRunCells(c[1], c[2])]

\* C21: the cells of the active set depend on the player's cell alone: in every
\* reachable state, whatever moves, fixes, withdrawals, resets and reloads led
\* to it and whatever the store holds, they are the cells a first run on an
\* empty store makes active for that cell, in the same order.
C21_ActiveCellsFunctionOfCell ==
    ActiveCells = FirstRuns[<<CellOf(position).i, CellOf(position).j>>]

\* C21 witness: the player is back in the start cell at another point of it,
\* after a withdrawal, with the caches of the first load active.
C21_Witness ==
    /\ CellOf(position) = CellOf(startPos)
    /\ position # startPos
    /\ issued # <<>>
    /\ Len(loadedCaches) = Len(StartCaches)
    /\ loadedCaches # <<>>

-----------------------------------------------------------------------------
(* Properties of the luck keys, checked under SpecKeys *)

\* C22: for all cells a and b, equal or not, the key of the initial value of a
\* differs from the key of the spawn decision of b; and for different cells the
\* two initial-value keys differ and the two spawn keys differ.
C22_LuckKeysDistinct ==
    call.op = "keys" =>
        /\ result.initial # result.spawn
        /\ call.a # call.b =>
              /\ result.initial # InitialValueKey(call.b[1], call.b[2])
              /\ result.spawn # CellKey(call.a[1], call.a[2])

\* C22 witness: the keys of one and the same cell with a negative coordinate
C22_Witness ==
    /\ call.op = "keys"
    /\ call.a = call.b
    /\ call.a = <<-12, 1>>
    /\ result.spawn = <<"-", "1", "2", ",", "1">>
    /\ Len(result.initial) = Len(result.spawn) + 13

-----------------------------------------------------------------------------
(* Properties of the popups of main.ts, checked under SpecPopup *)

\* the coins of the player that were taken at the site
CoinsFrom(site) ==
    Cardinality({n \in 1..Len(coins) : coins[n] = PopupSerial(site[1], site[2])})

\* C23: for any sequence of popup openings and pokes, the number of coins the
\* player has obtained from a site is at most the site's initial value v, and
\* after k successful pokes at the site its open popup holds v - k.
C23_SiteGivesAtMostItsValue ==
    \A site \in updateCache :
        /\ CoinsFrom(site) <= pointValue(site[1], site[2])
        /\ (popup # <<>> /\ <<popup[1].i, popup[1].j>> = site)
              => popup[1].coins = pointValue(site[1], site[2]) - CoinsFrom(site)

\* C25: while sensor mode is off, the position changes only through the move
\* buttons (or a page load); a fix delivered then, also one requested while
\* sensor mode was on, leaves the position, the active set and the store as
\* they are.
C25_NoFixMovesWhileSensorOff ==
    [][~realPositionMode =>
          /\ position' # position => event' \in {"move", "load"}
          /\ event' = "fix" => UNCHANGED <<position, loadedCaches, localStorage>>]_vars

=============================================================================
